---------------------------- MODULE Spec2Model ----------------------------
(***************************************************************************)
(* A model of categorize_books.py: the categorization driver main(), the   *)
(* per-year operation categorize_year_books() with its response cache, the *)
(* validator validate_response(), and the files they read and write (the   *)
(* pickle cache, the transcript log, the output file).                     *)
(*                                                                         *)
(* Environment: the oracle (the chat-completion call) may answer any text, *)
(* raise, or be interrupted; the local file system is taken to work (an    *)
(* open or a write of a local file does not fail), a cache file may        *)
(* however hold bytes that do not unpickle.                                *)
(*                                                                         *)
(* JSON values are records carrying a "type" field; a Python dict's        *)
(* optional keys are the record's optional fields, so `"k" in d` is        *)
(* "k" \in DOMAIN d.  Texts are strings; lower() and strip() are tabulated *)
(* over the texts the model uses.  NonText stands for a JSON value that is *)
(* no string (null, a number) where the code expects a text: .lower() on   *)
(* it raises AttributeError.  A book of the input is a dict as json.load   *)
(* builds it, its keys in the order of the file: a sequence of <<key,       *)
(* value>> pairs.                                                          *)
(***************************************************************************)
EXTENDS Integers, Sequences, FiniteSets, TLC

(***************************************************************************)
(* Bounds of the model.                                                    *)
(***************************************************************************)
\* longest book list of a year in the validation specification
MaxBooks == 2
\* longest "books" array of an oracle reply in the validation specification
MaxReplyBooks == 2

(***************************************************************************)
(* Texts.                                                                  *)
(***************************************************************************)
\* a value that is no str, in the place of a title or a category
NonText == "<non-text>"
IsText(v) == v # NonText

\* str.lower() over the texts of the model
Lower(s) ==
    CASE s = "T1" -> "t1"
      [] s = "T2" -> "t2"
      [] s = "History" -> "history"
      [] s = " Fantasy " -> " fantasy "
      [] OTHER -> s

\* str.strip() over the texts of the model
Strip(s) ==
    CASE s = " Fantasy " -> "Fantasy"
      [] s = " fantasy " -> "fantasy"
      [] s = " " -> ""
      [] OTHER -> s

ALLOWED_CATEGORIES ==
    { "non-fiction", "sci-fi", "fantasy", "comic books", "tech books",
      "self-development books", "history" }

\* dict.get(key, "") of a JSON object
Get(obj, key) == IF key \in DOMAIN obj THEN obj[key] ELSE ""

\* book[key] of an input book
Field(book, key) == book[CHOOSE i \in 1..Len(book) : book[i][1] = key][2]

\* the elements of a sequence
Range(seq) == { seq[i] : i \in 1..Len(seq) }

\* all sequences over S of length at most n
RECURSIVE SeqsUpTo(_, _)
SeqsUpTo(S, n) ==
    IF n = 0 THEN { <<>> }
    ELSE LET shorter == SeqsUpTo(S, n - 1)
         IN  shorter \cup { Append(q, x) : q \in shorter, x \in S }

(***************************************************************************)
(* JSON values of the model.                                               *)
(***************************************************************************)
\* a JSON array
List(items) == [type |-> "list", items |-> items]
\* a JSON value that is neither an object nor an array (a number, a string)
Scalar == [type |-> "scalar"]
\* {"books": v}
BooksObject(v) == [type |-> "object", books |-> v]
\* a JSON object without a "books" key
OtherObject == [type |-> "object", message |-> "no books here"]
\* the error marker categorize_year_books returns
ErrorResult(msg) == [type |-> "object", error |-> msg, books |-> List(<<>>)]
\* no value (Python's None, or a call that did not return)
None == [type |-> "none"]

IsError(result) == "error" \in DOMAIN result

(***************************************************************************)
(* validate_response: (is_valid, error_message, warnings), or the          *)
(* AttributeError that .get() raises on an element that is no dict.        *)
(***************************************************************************)
MSG_NOT_OBJECT == "Response must be a JSON object with a 'books' key"
MSG_NOT_ARRAY == "Response 'books' must be an array"
MSG_INVALID_CATEGORIES == "Invalid categories found"
MSG_MISSING_TITLE == "Some books in response are missing 'title' field"
MSG_MISSING_CATEGORY == "Book is missing 'category' field"
MSG_PARSE == "Failed to parse JSON response"
MSG_API == "API error"

Verdict(valid, msg, warnings) ==
    [raised |-> FALSE, is_valid |-> valid, error_msg |-> msg, warnings |-> warnings]

\* the AttributeError of lines 48 and 58: book.get on an element that is no
\* dict, .lower() on a title or a category that is no str
RaisedAttributeError == [raised |-> TRUE]

\* a variant comparing the titles as written
MissingBooks_CaseSensitive(books_sent, categorized_books) ==
    { Field(b, "title") : b \in Range(books_sent) }
        \ { Get(b, "title") : b \in Range(categorized_books) }

\* lines 47-50: the titles sent that the reply does not hold
MissingBooks(books_sent, categorized_books) ==
    { Lower(Field(b, "title")) : b \in Range(books_sent) }
        \ { Lower(Get(b, "title")) : b \in Range(categorized_books) }

\* lines 51-53
Warnings(missing_books) ==
    IF missing_books # {} THEN << [missing |-> missing_books] >> ELSE <<>>

\* lines 58-59: the test that puts a book's category among the invalid ones
NormalizedCategory(book) == Strip(Lower(Get(book, "category")))

InvalidCategory(book) ==
    /\ NormalizedCategory(book) # ""
    /\ NormalizedCategory(book) \notin ALLOWED_CATEGORIES

\* a variant without the check of lines 65-70
RequiredFields_Skipped(categorized_books) == ""

\* lines 65-70: the first element lacking a required field decides the message
RECURSIVE RequiredFields(_)
RequiredFields(categorized_books) ==
    IF categorized_books = <<>> THEN ""
    ELSE IF "title" \notin DOMAIN Head(categorized_books) THEN MSG_MISSING_TITLE
    ELSE IF "category" \notin DOMAIN Head(categorized_books) THEN MSG_MISSING_CATEGORY
    ELSE RequiredFields(Tail(categorized_books))

\* lines 55-72
CheckBooks(categorized_books, warnings) ==
    IF \E b \in Range(categorized_books) : InvalidCategory(b)
    THEN Verdict(FALSE, MSG_INVALID_CATEGORIES, warnings)
    ELSE IF RequiredFields(categorized_books) # ""
    THEN Verdict(FALSE, RequiredFields(categorized_books), warnings)
    ELSE Verdict(TRUE, "", warnings)

\* lines 46-72
ValidateBooks(books_sent, categorized_books) ==
    IF \E b \in Range(categorized_books) :
           \/ b.type # "object"
           \/ ~IsText(Get(b, "title"))
           \/ ~IsText(Get(b, "category"))
    THEN RaisedAttributeError
    ELSE CheckBooks(categorized_books,
                    Warnings(MissingBooks(books_sent, categorized_books)))

validate_response(books_sent, response_data) ==
    IF response_data.type # "object" \/ "books" \notin DOMAIN response_data
    THEN Verdict(FALSE, MSG_NOT_OBJECT, <<>>)
    ELSE IF response_data.books.type # "list"
    THEN Verdict(FALSE, MSG_NOT_ARRAY, <<>>)
    ELSE ValidateBooks(books_sent, response_data.books.items)

(***************************************************************************)
(* get_books_hash: the digest of the canonical serialization               *)
(* json.dumps(books, sort_keys=True): every book's keys in sorted order,   *)
(* the books in list order.  SHA-256 is taken to be free of collisions.    *)
(***************************************************************************)
\* the order of the keys as str compares them
KeyBefore(k1, k2) == k1 = "author" /\ k2 = "title"

\* a variant that writes every book's keys in the order the dict has them
Serialize_KeyOrderKept(books) == books

Serialize(books) ==
    [i \in 1..Len(books) |->
        SortSeq(books[i], LAMBDA p, q : KeyBefore(p[1], q[1]))]

get_books_hash(books) == [sha256 |-> Serialize(books)]

(***************************************************************************)
(* The cache: in memory a dict year -> {'books_hash', 'response'}; on disk *)
(* the pickle of that dict, no file, or bytes that do not unpickle.        *)
(***************************************************************************)
EmptyCache == [y \in {} |-> None]

\* cache[year] = entry
Put(map, key, value) ==
    [k \in (DOMAIN map) \cup {key} |-> IF k = key THEN value ELSE map[k]]

NoFile == [state |-> "absent"]
CorruptFile == [state |-> "corrupt"]
Pickle(cache) == [state |-> "pickle", data |-> cache]

\* a variant that starts every run with an empty cache
load_cache_Forgets(cache_file) == EmptyCache

load_cache(cache_file) ==
    IF cache_file.state = "pickle" THEN cache_file.data ELSE EmptyCache

\* the dict the cache file would load as
OnDisk(cache_file) == load_cache(cache_file)

\* a variant that leaves the file as it is
save_cache_Deferred(cache, cache_file) == cache_file

save_cache(cache, cache_file) == Pickle(cache)

(***************************************************************************)
(* The transcript log: one entry per log_response call.                    *)
(***************************************************************************)
\* the request payload: the year, and every book's author and title
Prompt(year, books) ==
    [year |-> year,
     books |-> [i \in 1..Len(books) |->
                   << Field(books[i], "author"), Field(books[i], "title") >>]]
\* f"[CACHED] {len(books)} books"
CachedPrompt(books) == [cached |-> Len(books)]

NoError == [msg |-> ""]
ErrorText(msg) == [msg |-> msg]
WarningText(w) == [msg |-> "Missing books in response", titles |-> w.missing]

\* the log's header, written when main opens it
LogHeader == [header |-> "OpenAI API Response Log"]

log_response(log_file, year, prompt, response_text, response_data, error) ==
    Append(log_file, [year |-> year, prompt |-> prompt, raw |-> response_text,
                      parsed |-> response_data, error |-> error])

\* one log_response call per warning, lines 233-237
RECURSIVE LogWarnings(_, _, _, _, _, _)
LogWarnings(log_file, year, prompt, response_text, response_data, warnings) ==
    IF warnings = <<>> THEN log_file
    ELSE LogWarnings(
             log_response(log_file, year, prompt, response_text, response_data,
                          WarningText(Head(warnings))),
             year, prompt, response_text, response_data, Tail(warnings))

(***************************************************************************)
(* The oracle's reply text, as a sequence of tokens: a code fence (three   *)
(* backticks), a word, white space, a well-formed JSON document, or text   *)
(* that is no JSON.                                                        *)
(***************************************************************************)
Fence == [t |-> "fence"]
Word(w) == [t |-> "word", w |-> w]
Ws == [t |-> "ws"]
Doc(d) == [t |-> "doc", doc |-> d]
Junk == [t |-> "junk"]
\* a literal the program itself writes to the log
Literal(s) == << [t |-> "literal", s |-> s] >>

RECURSIVE LStrip(_)
LStrip(text) ==
    IF text # <<>> /\ Head(text) = Ws THEN LStrip(Tail(text)) ELSE text

RECURSIVE RStrip(_)
RStrip(text) ==
    IF text # <<>> /\ text[Len(text)] = Ws
    THEN RStrip(SubSeq(text, 1, Len(text) - 1))
    ELSE text

StripText(text) == RStrip(LStrip(text))

\* lines 215-216
DropJsonFence(text) ==
    IF Len(text) >= 2 /\ text[1] = Fence /\ text[2] = Word("json")
    THEN SubSeq(text, 3, Len(text)) ELSE text

\* lines 217-218
DropFence(text) ==
    IF text # <<>> /\ text[1] = Fence THEN Tail(text) ELSE text

\* lines 219-220
DropClosingFence(text) ==
    IF text # <<>> /\ text[Len(text)] = Fence
    THEN SubSeq(text, 1, Len(text) - 1) ELSE text

\* lines 212-221
StripFences(content) ==
    StripText(DropClosingFence(DropFence(DropJsonFence(StripText(content)))))

\* json.loads: the document, or None for a JSONDecodeError
JsonLoads(text) ==
    IF Len(StripText(text)) = 1 /\ StripText(text)[1].t = "doc"
    THEN StripText(text)[1].doc
    ELSE None

(***************************************************************************)
(* The oracle call of lines 196-210: a reply text, an exception of the     *)
(* client (transport failure), or a KeyboardInterrupt while it blocks.     *)
(***************************************************************************)
Replies(text) == [kind |-> "text", text |-> text]
Raises == [kind |-> "raise"]
Interrupted == [kind |-> "interrupt"]
\* the oracle was not called
NotAsked == [kind |-> "none"]

(***************************************************************************)
(* categorize_year_books: the cache, the cache file and the log after the  *)
(* call, what it returned (None when the interrupt passed through it), how *)
(* it ended and the number of oracle calls it issued.                      *)
(***************************************************************************)
Outcome(cache, file, log, result, how, n, warnings) ==
    [cache |-> cache, file |-> file, log |-> log, result |-> result,
     how |-> how, oracle |-> n, warnings |-> warnings]

\* a variant that never finds the year
CacheHit_Disabled(cache, year, books_hash) == FALSE

\* a variant that does not compare the hash
CacheHit_AnyEntry(cache, year, books_hash) == year \in DOMAIN cache

\* lines 147-149
CacheHit(cache, year, books_hash) ==
    year \in DOMAIN cache /\ cache[year].books_hash = books_hash

\* a variant that replaces the dict instead of setting one key
StoreEntry_Alone(cache, year, books_hash, response_data) ==
    Put(EmptyCache, year, [books_hash |-> books_hash, response |-> response_data])

\* lines 245-252: cache[year] = {...}, then save_cache
StoreEntry(cache, year, books_hash, response_data) ==
    Put(cache, year, [books_hash |-> books_hash, response |-> response_data])

\* a variant that returns the reply with its categories lower-cased
Accept_Normalizes(cache2, file, log, response_data, warnings) ==
    Outcome(cache2, save_cache(cache2, file), log,
            BooksObject(List([i \in 1..Len(response_data.books.items) |->
                [response_data.books.items[i] EXCEPT !.category = Lower(@)]])),
            "accepted", 1, warnings)

\* lines 245-255, the reply valid
Accept(cache2, file, log, response_data, warnings) ==
    Outcome(cache2, save_cache(cache2, file), log, response_data, "accepted", 1,
            warnings)

\* a variant that stores the reply before it looks at the verdict
OnVerdict_CachesInvalid(cache, file, log, year, books, books_hash, response_text, response_data, v) ==
    IF ~v.is_valid
    THEN Outcome(StoreEntry(cache, year, books_hash, response_data),
                 save_cache(StoreEntry(cache, year, books_hash, response_data), file),
                 log_response(log, year, Prompt(year, books), response_text,
                              response_data, ErrorText(v.error_msg)),
                 ErrorResult(v.error_msg), "error", 1, v.warnings)
    ELSE Accept(StoreEntry(cache, year, books_hash, response_data), file, log,
                response_data, v.warnings)

\* lines 232-255, validate_response having returned v
OnVerdict(cache, file, log, year, books, books_hash, response_text, response_data, v) ==
    IF ~v.is_valid
    THEN Outcome(cache, file,
                 log_response(log, year, Prompt(year, books), response_text,
                              response_data, ErrorText(v.error_msg)),
                 ErrorResult(v.error_msg), "error", 1, v.warnings)
    ELSE Accept(StoreEntry(cache, year, books_hash, response_data), file, log,
                response_data, v.warnings)

\* lines 230-266, the reply parsed and logged
OnValidated(cache, file, log, year, books, books_hash, response_text, response_data, v) ==
    IF v.raised
    THEN \* except Exception
         Outcome(cache, file,
                 log_response(log, year, Prompt(year, books), Literal("N/A"), None,
                              ErrorText(MSG_API)),
                 ErrorResult(MSG_API), "error", 1, <<>>)
    ELSE OnVerdict(cache, file,
                   LogWarnings(log, year, Prompt(year, books), response_text,
                               response_data, v.warnings),
                   year, books, books_hash, response_text, response_data, v)

\* lines 224-261, json.loads having returned response_data (None: it raised)
OnParsed(cache, file, log, year, books, books_hash, response_text, response_data) ==
    IF response_data = None
    THEN \* except json.JSONDecodeError
         Outcome(cache, file,
                 log_response(log, year, Prompt(year, books), response_text, None,
                              ErrorText(MSG_PARSE)),
                 ErrorResult(MSG_PARSE), "error", 1, <<>>)
    ELSE OnValidated(cache, file,
                     log_response(log, year, Prompt(year, books), response_text,
                                  response_data, NoError),
                     year, books, books_hash, response_text, response_data,
                     validate_response(books, response_data))

\* lines 212-224
OnText(cache, file, log, year, books, books_hash, response_text) ==
    OnParsed(cache, file, log, year, books, books_hash, response_text,
             JsonLoads(response_text))

\* a variant whose handler of a failed call reads response_text, which was
\* never bound: the NameError passes through categorize_year_books
OnMiss_UnboundText(cache, file, log, year, books, books_hash, oracle) ==
    IF oracle.kind \in { "interrupt", "raise" }
    THEN Outcome(cache, file, log, None, "interrupted", 1, <<>>)
    ELSE OnText(cache, file, log, year, books, books_hash, StripFences(oracle.text))

\* a variant that calls the oracle a second time when the first call raised,
\* and gives up when that raises too
OnMiss_RetriesOnce(cache, file, log, year, books, books_hash, oracle) ==
    IF oracle.kind = "interrupt"
    THEN Outcome(cache, file, log, None, "interrupted", 1, <<>>)
    ELSE IF oracle.kind = "raise"
    THEN Outcome(cache, file,
                 log_response(log, year, Prompt(year, books), Literal("N/A"), None,
                              ErrorText(MSG_API)),
                 ErrorResult(MSG_API), "error", 2, <<>>)
    ELSE OnText(cache, file, log, year, books, books_hash, StripFences(oracle.text))

\* lines 195-266: the oracle called
OnMiss(cache, file, log, year, books, books_hash, oracle) ==
    IF oracle.kind = "interrupt"
    THEN Outcome(cache, file, log, None, "interrupted", 1, <<>>)
    ELSE IF oracle.kind = "raise"
    THEN \* except Exception
         Outcome(cache, file,
                 log_response(log, year, Prompt(year, books), Literal("N/A"), None,
                              ErrorText(MSG_API)),
                 ErrorResult(MSG_API), "error", 1, <<>>)
    ELSE OnText(cache, file, log, year, books, books_hash, StripFences(oracle.text))

\* lines 150-156
OnHit(cache, file, log, year, books, cached_response) ==
    Outcome(cache, file,
            log_response(log, year, CachedPrompt(books), Literal("[CACHED RESPONSE]"),
                         cached_response, NoError),
            cached_response, "hit", 0, <<>>)

\* a variant that deletes an entry whose hash differs before it asks the oracle
Lookup_EvictsStale(cache, file, log, year, books, books_hash, oracle) ==
    IF CacheHit(cache, year, books_hash)
    THEN OnHit(cache, file, log, year, books, cache[year].response)
    ELSE OnMiss([y \in (DOMAIN cache) \ { year } |-> cache[y]], file, log, year, books,
                books_hash, oracle)

\* lines 146-266
Lookup(cache, file, log, year, books, books_hash, oracle) ==
    IF CacheHit(cache, year, books_hash)
    THEN OnHit(cache, file, log, year, books, cache[year].response)
    ELSE OnMiss(cache, file, log, year, books, books_hash, oracle)

categorize_year_books(cache, file, log, year, books, oracle) ==
    Lookup(cache, file, log, year, books, get_books_hash(books), oracle)

(***************************************************************************)
(* The inputs the model draws from.                                        *)
(***************************************************************************)
Years == { "2020", "2021" }
\* sorted(books_by_year.keys()) lists the years present in this order
YearsInOrder == << "2020", "2021" >>

Book1 == << <<"author", "A">>, <<"title", "T1">> >>
Book2 == << <<"author", "B">>, <<"title", "t2">> >>
Books == { Book1, Book2 }

\* the lists of a year in the driver's runs: as first read, and after an edit
Editions == { << Book1 >>, << Book1, Book2 >> }

\* a reply element {"title": .., "category": ..}, either key optional
Element(fields) == [k \in (DOMAIN fields) \cup {"type"} |->
                        IF k = "type" THEN "object" ELSE fields[k]]

ReplyOne == BooksObject(List(<< Element([title |-> "t1", category |-> "sci-fi"]) >>))
ReplyTwo == BooksObject(List(<< Element([title |-> "t1", category |-> "sci-fi"]),
                                Element([title |-> "t2", category |-> "History"]) >>))
ReplyBiography ==
    BooksObject(List(<< Element([title |-> "t1", category |-> "biography"]) >>))

\* what the oracle does in the driver's runs
DriverOracle ==
    { Raises, Interrupted, Replies(<< Junk >>) }
    \cup { Replies(<< Doc(d) >>) : d \in { ReplyOne, ReplyTwo, ReplyBiography } }

\* books.json: a dict from some of the years to their lists
InputsOver(lists) == UNION { [Y -> lists] : Y \in SUBSET Years }

(***************************************************************************)
(* State.                                                                  *)
(***************************************************************************)
VARIABLES
    cacheFile,            \* openai_cache.pkl
    logFile,              \* openai_responses.log: the entries it holds
    outputFile,           \* books_categorized.json: None, or the dict written
    pc,                   \* where main() is; "idle" when no process runs
    exit,                 \* the exit status of the last run, "none" before it
    cache,                \* main's cache dict
    books_by_year,        \* main's input dict
    todo,                 \* the years the for loop has yet to reach
    categorized_by_year,  \* main's result dict
    call,                 \* the last call of categorize_year_books: its
                          \* arguments, what the oracle answered, the result
    before,               \* how the call before it ended, and whether it had
                          \* the same arguments
    earlier               \* the run before this one, where a specification
                          \* keeps track of it: its input, its results, how
                          \* it ended

vars == << cacheFile, logFile, outputFile, pc, exit, cache, books_by_year,
           todo, categorized_by_year, call, before, earlier >>

history == << call, before, earlier >>

files == << cacheFile, logFile, outputFile >>
memory == << cache, books_by_year, todo, categorized_by_year >>

EmptyDict == [y \in {} |-> None]

NoCall == [year |-> "", books |-> <<>>, found |-> "none", asked |-> NotAsked,
           how |-> "none", result |-> None, oracle |-> 0, warnings |-> <<>>]
NoneBefore == [how |-> "none", result |-> None, oracle |-> 0, same |-> FALSE]
NoRun == [how |-> "none", input |-> EmptyDict, results |-> EmptyDict]

\* the process is gone: its memory with it
Exited(status) ==
    /\ pc' = "idle"
    /\ exit' = status
    /\ cache' = EmptyCache
    /\ books_by_year' = EmptyDict
    /\ todo' = <<>>
    /\ categorized_by_year' = EmptyDict

Init ==
    /\ cacheFile \in { NoFile, CorruptFile }
    /\ logFile = <<>>
    /\ outputFile = None
    /\ pc = "idle"
    /\ exit = "none"
    /\ cache = EmptyCache
    /\ books_by_year = EmptyDict
    /\ todo = <<>>
    /\ categorized_by_year = EmptyDict
    /\ call = NoCall
    /\ before = NoneBefore
    /\ earlier = NoRun

(***************************************************************************)
(* main()                                                                  *)
(***************************************************************************)
\* lines 271-277: no OPENAI_API_KEY
ExitNoKey ==
    /\ pc = "idle"
    /\ Exited("1")
    /\ UNCHANGED << files, history >>

\* a variant that opens the log before it looks for books.json
ExitNoInput_OpensLog ==
    /\ pc = "idle"
    /\ Exited("1")
    /\ logFile' = << LogHeader >>
    /\ UNCHANGED << cacheFile, outputFile, history >>

\* lines 283-286: no books.json
ExitNoInput ==
    /\ pc = "idle"
    /\ Exited("1")
    /\ UNCHANGED << files, history >>

\* lines 288-308: read books.json, load the cache, open the log for writing
Start(input) ==
    /\ pc = "idle"
    /\ books_by_year' = input
    /\ cache' = load_cache(cacheFile)
    /\ logFile' = << LogHeader >>
    /\ categorized_by_year' = EmptyDict
    /\ todo' = SelectSeq(YearsInOrder, LAMBDA y : y \in DOMAIN input)
    /\ pc' = IF DOMAIN input = {} THEN "finally" ELSE "loop"
    /\ exit' = "running"
    /\ UNCHANGED << cacheFile, outputFile, history >>

\* a variant that keeps an error marker out of the result dict
Returned_DropsErrors(year, books, oracle, r) ==
    /\ cache' = r.cache
    /\ cacheFile' = r.file
    /\ logFile' = r.log
    /\ call' = [year |-> year, books |-> books,
                found |-> IF year \notin DOMAIN cache THEN "absent"
                          ELSE IF cache[year].books_hash = get_books_hash(books)
                          THEN "match" ELSE "stale",
                asked |-> IF r.oracle = 0 THEN NotAsked ELSE oracle,
                how |-> r.how, result |-> r.result, oracle |-> r.oracle,
                warnings |-> r.warnings]
    /\ before' = [how |-> call.how, result |-> call.result, oracle |-> call.oracle,
                  same |-> call.year = year /\ call.books = books]
    /\ IF r.how = "interrupted"
       THEN /\ pc' = "unwind"
            /\ UNCHANGED categorized_by_year
       ELSE /\ pc' = "gate"
            /\ categorized_by_year' = IF IsError(r.result) THEN categorized_by_year
                                      ELSE Put(categorized_by_year, year, r.result)

\* lines 313-314: categorize_year_books returned r, or the interrupt passed
Returned(year, books, oracle, r) ==
    /\ cache' = r.cache
    /\ cacheFile' = r.file
    /\ logFile' = r.log
    /\ call' = [year |-> year, books |-> books,
                found |-> IF year \notin DOMAIN cache THEN "absent"
                          ELSE IF cache[year].books_hash = get_books_hash(books)
                          THEN "match" ELSE "stale",
                asked |-> IF r.oracle = 0 THEN NotAsked ELSE oracle,
                how |-> r.how, result |-> r.result, oracle |-> r.oracle,
                warnings |-> r.warnings]
    /\ before' = [how |-> call.how, result |-> call.result, oracle |-> call.oracle,
                  same |-> call.year = year /\ call.books = books]
    /\ IF r.how = "interrupted"
       THEN /\ pc' = "unwind"
            /\ UNCHANGED categorized_by_year
       ELSE /\ pc' = "gate"
            /\ categorized_by_year' = Put(categorized_by_year, year, r.result)

\* lines 309-314: one year of the loop
ProcessYear(oracle) ==
    /\ pc = "loop"
    /\ Returned(Head(todo), books_by_year[Head(todo)], oracle,
                categorize_year_books(cache, cacheFile, logFile, Head(todo),
                                      books_by_year[Head(todo)], oracle))
    /\ UNCHANGED << outputFile, exit, books_by_year, todo, earlier >>

\* lines 317-319: Enter pressed
Continue ==
    /\ pc = "gate"
    /\ todo' = Tail(todo)
    /\ pc' = IF Tail(todo) = <<>> THEN "finally" ELSE "loop"
    /\ UNCHANGED << files, exit, cache, books_by_year, categorized_by_year, history >>

\* a variant in which the KeyboardInterrupt of the prompt is not caught
Break_Uncaught ==
    /\ pc = "gate"
    /\ pc' = "unwind"
    /\ UNCHANGED << files, exit, cache, books_by_year, todo, categorized_by_year,
                    history >>

\* lines 320-322: Ctrl+C at the prompt
Break ==
    /\ pc = "gate"
    /\ pc' = "finally"
    /\ UNCHANGED << files, exit, cache, books_by_year, todo, categorized_by_year,
                    history >>

\* a variant that saves the entries of the years of this run's input only
Finally_PrunesAbsent ==
    /\ pc = "finally"
    /\ cacheFile' = save_cache([y \in (DOMAIN cache) \cap (DOMAIN books_by_year)
                                   |-> cache[y]], cacheFile)
    /\ pc' = "output"
    /\ UNCHANGED << logFile, outputFile, exit, memory, history >>

\* lines 323-327 after the loop ended: close the log, save the cache
Finally ==
    /\ pc = "finally"
    /\ cacheFile' = save_cache(cache, cacheFile)
    /\ pc' = "output"
    /\ UNCHANGED << logFile, outputFile, exit, memory, history >>

\* the run that is ending: how it came to its end, its input, its results
ThisRun ==
    [how |-> IF pc = "unwind" THEN "interrupt"
             ELSE IF todo # <<>> THEN "break" ELSE "complete",
     input |-> books_by_year, results |-> categorized_by_year]

\* a variant that goes on to write the output file after the finally block
UnwindAs_WritesOutput(run) ==
    /\ pc = "unwind"
    /\ cacheFile' = save_cache(cache, cacheFile)
    /\ outputFile' = [type |-> "file", data |-> categorized_by_year]
    /\ Exited("interrupt")
    /\ earlier' = run
    /\ UNCHANGED << logFile, call, before >>

\* lines 323-327 while an exception passes through, then the process dies of
\* it; `run` is what is remembered of the last run from here on
UnwindAs(run) ==
    /\ pc = "unwind"
    /\ cacheFile' = save_cache(cache, cacheFile)
    /\ Exited("interrupt")
    /\ earlier' = run
    /\ UNCHANGED << logFile, outputFile, call, before >>

Unwind == UnwindAs(earlier)

\* lines 329-349: write the results, print the summary
WriteOutputAs(run) ==
    /\ pc = "output"
    /\ outputFile' = [type |-> "file", data |-> categorized_by_year]
    /\ Exited("0")
    /\ earlier' = run
    /\ UNCHANGED << cacheFile, logFile, call, before >>

WriteOutput == WriteOutputAs(earlier)

Next ==
    \/ ExitNoKey
    \/ ExitNoInput
    \/ \E input \in InputsOver(Editions) : Start(input)
    \/ \E oracle \in DriverOracle : ProcessYear(oracle)
    \/ Continue
    \/ Break
    \/ Finally
    \/ Unwind
    \/ WriteOutput

Spec == Init /\ [][Next]_vars

(***************************************************************************)
(* The restart specification: runs of main() one after the other on inputs *)
(* holding both years, each run ended by the loop running out, by Ctrl+C   *)
(* at the prompt or by an interrupt during an oracle call; when a run ends *)
(* its input, its results and the way it ended are kept in `earlier`.      *)
(***************************************************************************)
\* a run ends, and is remembered
UnwindRecorded == UnwindAs(ThisRun)
WriteOutputRecorded == WriteOutputAs(ThisRun)

ResumeOracle == { Raises, Interrupted, Replies(<< Doc(ReplyOne) >>),
                  Replies(<< Doc(ReplyTwo) >>) }

NextResume ==
    \/ \E input \in [Years -> Editions] : Start(input)
    \/ \E oracle \in ResumeOracle : ProcessYear(oracle)
    \/ Continue
    \/ Break
    \/ Finally
    \/ UnwindRecorded
    \/ WriteOutputRecorded

SpecResume == Init /\ [][NextResume]_vars

(***************************************************************************)
(* The fingerprint specification: runs of main() one after the other on one *)
(* year, whose list is any list of at most two books over two authors and  *)
(* two titles, each book's keys in either order; the oracle answers with a *)
(* valid reply or fails.                                                   *)
(***************************************************************************)
HashBooks ==
    { << <<"author", a>>, <<"title", t>> >> : a \in { "A", "B" }, t \in { "T1", "t2" } }
    \cup { << <<"title", t>>, <<"author", a>> >> : a \in { "A", "B" }, t \in { "T1", "t2" } }

HashLists ==
    { <<>> } \cup { << b >> : b \in HashBooks }
             \cup { << b, c >> : b \in HashBooks, c \in HashBooks }

HashOracle == { Raises, Replies(<< Doc(ReplyOne) >>) }

NextHash ==
    \/ \E input \in [{ "2020" } -> HashLists] : Start(input)
    \/ \E oracle \in HashOracle : ProcessYear(oracle)
    \/ Continue
    \/ Finally
    \/ WriteOutputRecorded

SpecHash == Init /\ [][NextHash]_vars

(***************************************************************************)
(* The refresh specification: complete runs of main() one after the other, *)
(* a year's list changing from run to run and back, the oracle answering   *)
(* with a valid reply or failing in each of the three ways; `earlier`      *)
(* keeps the last two runs.                                                *)
(***************************************************************************)
\* the run that is ending, and what was remembered of the run before it
LastTwoRuns ==
    [how |-> ThisRun.how, input |-> ThisRun.input, results |-> ThisRun.results,
     previous |-> [how |-> earlier.how, input |-> earlier.input,
                   results |-> earlier.results]]

WriteOutputAfter == WriteOutputAs(LastTwoRuns)

\* a valid reply, an API error, a reply that does not parse, a reply with a
\* category that is not allowed
RefreshOracle == { Replies(<< Doc(ReplyOne) >>), Raises, Replies(<< Junk >>),
                   Replies(<< Doc(ReplyBiography) >>) }

NextRefresh ==
    \/ \E input \in InputsOver(Editions) : Start(input)
    \/ \E oracle \in RefreshOracle : ProcessYear(oracle)
    \/ Continue
    \/ Finally
    \/ WriteOutputAfter

SpecRefresh == Init /\ [][NextRefresh]_vars

(***************************************************************************)
(* The validation specification: one year of one run, the year's list any  *)
(* list of at most MaxBooks books, the oracle's reply any document with at *)
(* most MaxReplyBooks elements, the cache file absent or left by an        *)
(* earlier run.                                                            *)
(***************************************************************************)
TitleTexts == { "t1", "t2" }
CategoryTexts == { "sci-fi", "History", " Fantasy ", "biography", "" }

\* the reply's elements: objects with or without a title and a category, with
\* a title or a category that is no text, and an element that is no object
Elements ==
    { Element([title |-> t, category |-> c]) : t \in TitleTexts, c \in CategoryTexts }
    \cup { Element([title |-> t]) : t \in TitleTexts }
    \cup { Element([category |-> c]) : c \in CategoryTexts }
    \cup { Element([title |-> NonText, category |-> "sci-fi"]),
           Element([title |-> "t1", category |-> NonText]) }
    \cup { Element(<<>>), Scalar }

ReplyDocs ==
    { Scalar, OtherObject, BooksObject(Scalar) }
    \cup { BooksObject(List(q)) : q \in SeqsUpTo(Elements, MaxReplyBooks) }

\* a reply that does not parse, in a ```json fence
FencedJunk == << Fence, Word("json"), Ws, Junk, Ws, Fence >>

\* what follows the three backticks of an opening fence: nothing, the tag
\* json, another language tag
FenceTags == { <<>>, << Word("json") >>, << Word("JSON") >> }

\* the document d in a code fence: the opening fence with its tag, a line
\* break, d, a line break, the closing fence
Fenced(tag, d) == << Fence >> \o tag \o << Ws, Doc(d), Ws, Fence >>

\* the documents the oracle also answers in a fence: a valid reply, one with
\* a category that is not allowed, one that is no object
FencedDocs == { ReplyOne, ReplyBiography, Scalar }

ValidationOracle ==
    { Raises, Replies(<< Junk >>), Replies(FencedJunk) }
    \cup { Replies(<< Doc(d) >>) : d \in ReplyDocs }
    \cup { Replies(Fenced(tag, d)) : tag \in FenceTags, d \in FencedDocs }

\* books.json of the validation specification: the one year 2020
ValidationInputs == [{"2020"} -> SeqsUpTo(Books, MaxBooks)]

\* the cache an earlier run left: both years, as answered for << Book1 >>
EarlierCache ==
    [y \in Years |-> [books_hash |-> get_books_hash(<< Book1 >>),
                      response |-> ReplyOne]]

InitValidate ==
    /\ cacheFile \in { NoFile, Pickle(EarlierCache) }
    /\ logFile = <<>>
    /\ outputFile = None
    /\ pc = "idle"
    /\ exit = "none"
    /\ cache = EmptyCache
    /\ books_by_year = EmptyDict
    /\ todo = <<>>
    /\ categorized_by_year = EmptyDict
    /\ call = NoCall
    /\ before = NoneBefore
    /\ earlier = NoRun

NextValidate ==
    \/ \E input \in ValidationInputs : exit = "none" /\ Start(input)
    \/ \E oracle \in ValidationOracle : ProcessYear(oracle)

SpecValidate == InitValidate /\ [][NextValidate]_vars

(***************************************************************************)
(* What the properties below speak of.                                     *)
(***************************************************************************)
\* the arguments of the call main is about to make (pc = "loop")
ArgYear == Head(todo)
ArgBooks == books_by_year[Head(todo)]

\* the cache holds an entry for the year whose hash is that of the year's list
HoldsMatchingEntry ==
    /\ ArgYear \in DOMAIN cache
    /\ cache[ArgYear].books_hash = get_books_hash(ArgBooks)

\* the entry of a year in a cache dict, None when it has none
Entry(map, year) == IF year \in DOMAIN map THEN map[year] ELSE None

\* the oracle answered call c with one well-formed JSON document
HasReply(c) ==
    /\ c.asked.kind = "text"
    /\ Len(c.asked.text) = 1
    /\ c.asked.text[1].t = "doc"
ReplyDoc(c) == c.asked.text[1].doc

\* call c returned a result that is no error marker
Succeeded(result) == result # None /\ ~IsError(result)

\* the error marker {error, books: []}
IsErrorMarker(result) ==
    /\ DOMAIN result = { "type", "error", "books" }
    /\ result.books = List(<<>>)

\* the reply breaks the structural contract
Malformed(d) ==
    \/ d.type # "object"
    \/ "books" \notin DOMAIN d
    \/ d.books.type # "list"
    \/ \E e \in Range(d.books.items) :
           "title" \notin DOMAIN e \/ "category" \notin DOMAIN e

\* the log holds a missing-books warning for the year
WarningLogged(year) ==
    \E i \in 1..Len(logFile) :
        /\ "error" \in DOMAIN logFile[i]
        /\ logFile[i].year = year
        /\ logFile[i].error.msg = "Missing books in response"

(***************************************************************************)
(* The cache.                                                              *)
(***************************************************************************)
\* C1: when the cache holds an entry for the year whose books_hash is the
\* hash of the year's list, the call returns the stored response, asks the
\* oracle nothing, and leaves the cache dict and the cache file as they were.
C1_CacheHit ==
    [][ (pc = "loop" /\ HoldsMatchingEntry) =>
            /\ pc' = "gate"
            /\ call'.result = cache[ArgYear].response
            /\ categorized_by_year'[ArgYear] = cache[ArgYear].response
            /\ call'.oracle = 0
            /\ call'.asked = NotAsked
            /\ cache' = cache
            /\ cacheFile' = cacheFile ]_vars

\* a call has just returned the stored response of a matching entry
C1_Witness ==
    /\ pc = "gate"
    /\ call.found = "match"
    /\ call.oracle = 0
    /\ call.result = cache[call.year].response

\* C2: a call that returns an error marker (the oracle raised, its reply did
\* not parse, or validation failed) leaves the cache dict and the cache file
\* exactly as they were, a stale entry of the year included.
C2_FailuresNeverCached ==
    [][ (pc = "loop" /\ pc' = "gate" /\ IsError(call'.result)) =>
            /\ cache' = cache
            /\ cacheFile' = cacheFile ]_vars

\* a reply failed validation while the cache held a stale entry of the year,
\* which is still there
C2_Witness ==
    /\ pc = "gate"
    /\ call.found = "stale"
    /\ HasReply(call)
    /\ IsError(call.result)
    /\ call.year \in DOMAIN cache
    /\ cache[call.year].books_hash # get_books_hash(call.books)

\* C3: when a call returns a reply of the oracle as its result, the cache
\* dict maps the year to the hash of the year's list and that reply, and the
\* cache file holds the pickle of the cache dict, already when the call
\* returns.
C3_WriteThrough ==
    [][ (pc = "loop" /\ pc' = "gate" /\ call'.oracle = 1 /\ Succeeded(call'.result)) =>
            /\ HasReply(call')
            /\ ArgYear \in DOMAIN cache'
            /\ cache'[ArgYear] = [books_hash |-> get_books_hash(ArgBooks),
                                  response |-> ReplyDoc(call')]
            /\ cacheFile' = Pickle(cache') ]_vars

\* a reply has just been accepted, and the file holds what the dict holds
C3_Witness ==
    /\ pc = "gate"
    /\ call.oracle = 1
    /\ Succeeded(call.result)
    /\ cacheFile.state = "pickle"
    /\ cacheFile.data = cache
    /\ cache[call.year].response = call.result

\* C4 as claimed: two calls in succession with the same year and list issue
\* exactly one oracle call between them, and the second is a cache hit.
C4_AsClaimed ==
    (before.same /\ before.result # None /\ call.result # None) =>
        /\ before.oracle + call.oracle = 1
        /\ call.found = "match"

\* C4 as amended: of two calls in succession with the same year and list, if
\* the first returned a success result the second finds the entry, asks the
\* oracle nothing and returns the same result (one oracle call between them
\* if the first was a miss, none if it was a hit); if the first returned an
\* error marker the second asks the oracle again.
C4_Idempotent ==
    before.same =>
        /\ Succeeded(before.result) =>
               /\ call.found = "match"
               /\ call.oracle = 0
               /\ call.result = before.result
        /\ (before.result # None /\ IsError(before.result)) =>
               /\ call.found # "match"
               /\ call.oracle = 1

\* the oracle's reply was accepted, and the next call, with the same year and
\* list, was a hit
C4_Witness ==
    /\ before.same
    /\ before.oracle = 1
    /\ Succeeded(before.result)
    /\ call.oracle = 0
    /\ call.result = before.result

\* C5: a call asks the oracle nothing only when the cache holds an entry of
\* the year with the hash of the year's list; when it holds none or one with
\* another hash, the call asks the oracle exactly once and, if it returns the
\* reply, the year's entry is the new hash and the reply.
C5_NoStaleReuse ==
    [][ (pc = "loop" /\ ~HoldsMatchingEntry) =>
            /\ call'.oracle = 1
            /\ call'.asked # NotAsked
            /\ (pc' = "gate" /\ Succeeded(call'.result)) =>
                   /\ HasReply(call')
                   /\ call'.result = ReplyDoc(call')
                   /\ cache'[ArgYear] = [books_hash |-> get_books_hash(ArgBooks),
                                         response |-> ReplyDoc(call')] ]_vars

\* a stale entry has just been overwritten with the new hash and reply
C5_Witness ==
    /\ pc = "gate"
    /\ call.found = "stale"
    /\ call.oracle = 1
    /\ Succeeded(call.result)
    /\ cache[call.year] = [books_hash |-> get_books_hash(call.books),
                           response |-> call.result]

\* C6: whatever its outcome, a call leaves the entry of every other year as
\* it was, in the cache dict and in the cache file.
C6_PerYearIsolation ==
    [][ pc = "loop" =>
            \A z \in Years \ { ArgYear } :
                /\ Entry(cache', z) = Entry(cache, z)
                /\ Entry(OnDisk(cacheFile'), z) = Entry(OnDisk(cacheFile), z) ]_vars

\* a reply has just been accepted for one year while the dict and the file
\* hold an entry of the other year
C6_Witness ==
    /\ pc = "gate"
    /\ call.oracle = 1
    /\ Succeeded(call.result)
    /\ \E z \in Years \ { call.year } :
           /\ z \in DOMAIN cache
           /\ Entry(OnDisk(cacheFile), z) = cache[z]

(***************************************************************************)
(* Validation.                                                             *)
(***************************************************************************)
\* an element of the reply carries a category that, lower-cased and stripped
\* as the validator compares it, is none of the seven labels
CarriesDisallowedCategory(d) ==
    /\ ~Malformed(d)
    /\ \E e \in Range(d.books.items) :
           Strip(Lower(e.category)) \notin ALLOWED_CATEGORIES

\* the reply keeps the structural rules, every title is a text, and every
\* category is, compared case-insensitively, one of the seven labels
WellFormed(d) ==
    /\ ~Malformed(d)
    /\ \A e \in Range(d.books.items) :
           /\ IsText(e.title)
           /\ Lower(e.category) \in ALLOWED_CATEGORIES

\* C7: a reply in which some element's category is, compared
\* case-insensitively (here even after stripping white space), none of the
\* seven allowed labels makes the year's result the error marker, and is not
\* cached.
C7_DisallowedCategoryFails ==
    (pc = "gate" /\ HasReply(call) /\ CarriesDisallowedCategory(ReplyDoc(call))) =>
        /\ IsError(call.result)
        /\ IsErrorMarker(call.result)
        /\ Entry(cache, call.year) # [books_hash |-> get_books_hash(call.books),
                                      response |-> ReplyDoc(call)]

\* C8: a reply that is no object, has no "books", whose "books" is no array,
\* or one of whose elements lacks "title" or "category" makes the year's
\* result the error marker and leaves the cache dict and the cache file as
\* they were.
C8_StructuralContract ==
    [][ (pc = "loop" /\ pc' = "gate" /\ HasReply(call')
            /\ Malformed(ReplyDoc(call'))) =>
            /\ IsError(call'.result)
            /\ IsErrorMarker(call'.result)
            /\ cache' = cache
            /\ cacheFile' = cacheFile ]_vars

\* a reply with a well-formed element and one that lacks its category was
\* rejected, and the stale entry of the year is still in the dict and the file
C8_Witness ==
    /\ pc = "gate"
    /\ HasReply(call)
    /\ ReplyDoc(call) = BooksObject(List(<<
           Element([title |-> "t1", category |-> "sci-fi"]),
           Element([title |-> "t2"]) >>))
    /\ IsError(call.result)
    /\ call.found = "stale"
    /\ cache = EarlierCache
    /\ cacheFile = Pickle(EarlierCache)

C10_ClosedCategorySet ==
    /\ (pc = "gate" /\ call.oracle = 1 /\ Succeeded(call.result)) =>
           \A e \in Range(call.result.books.items) :
               Strip(Lower(Get(e, "category"))) \in ALLOWED_CATEGORIES
    /\ \A y \in DOMAIN cache :
           \A e \in Range(cache[y].response.books.items) :
               Strip(Lower(Get(e, "category"))) \in ALLOWED_CATEGORIES

(***************************************************************************)
(* The driver.                                                             *)
(***************************************************************************)
\* the for loop ran through every year: no Ctrl+C at the prompt, none during
\* an oracle call
LoopExhausted == pc = "output" /\ todo = <<>>

\* the result main holds for year y is what this run accepted or found cached
\* for it
HoldsAcceptedResult(y) ==
    /\ Succeeded(categorized_by_year[y])
    /\ y \in DOMAIN cache
    /\ cache[y] = [books_hash |-> get_books_hash(books_by_year[y]),
                   response |-> categorized_by_year[y]]

\* C11: when no interrupt ended the loop, whatever the oracle did for each
\* year (raised, answered text that does not parse, a reply that fails
\* validation, a valid reply), main has a result for every year of the input,
\* each the accepted reply of the year or the error marker, and writes
\* exactly these to the output file and exits 0.
C11_PerYearErrorsLocal ==
    [][ LoopExhausted =>
            /\ DOMAIN categorized_by_year = DOMAIN books_by_year
            /\ \A y \in DOMAIN books_by_year :
                   \/ HoldsAcceptedResult(y)
                   \/ /\ IsError(categorized_by_year[y])
                      /\ IsErrorMarker(categorized_by_year[y])
            /\ outputFile' = [type |-> "file", data |-> categorized_by_year]
            /\ exit' = "0" ]_vars

\* the oracle failed for 2020, the run went on to 2021 and accepted its reply
C11_Witness ==
    /\ LoopExhausted
    /\ DOMAIN books_by_year = Years
    /\ IsError(categorized_by_year["2020"])
    /\ call.year = "2021"
    /\ call.oracle = 1
    /\ Succeeded(categorized_by_year["2021"])

\* C12: a run that finds no credential or no input file exits with status 1
\* and, in doing so, makes no call of categorize_year_books (so none of the
\* oracle), loads no cache, and leaves the cache file, the log and the output
\* file as they were.
C12_ConfigErrorsAbort ==
    [][ (pc = "idle" /\ exit' = "1") =>
            /\ pc' = "idle"
            /\ cache' = EmptyCache
            /\ call' = call
            /\ cacheFile' = cacheFile
            /\ logFile' = logFile
            /\ outputFile' = outputFile ]_vars

\* a run has left a cache, a log and an output file; the next run exited 1
\* and they are still there
C12_Witness ==
    /\ pc = "idle"
    /\ exit = "1"
    /\ cacheFile.state = "pickle"
    /\ DOMAIN cacheFile.data # {}
    /\ Len(logFile) > 1
    /\ outputFile # None

(***************************************************************************)
(* Runs one after the other.                                               *)
(***************************************************************************)
\* this run was started on the input of the run before it, which the
\* operator halted at the prompt
RestartedAfterHalt ==
    /\ pc \in { "loop", "gate" }
    /\ earlier.how = "break"
    /\ books_by_year = earlier.input

\* what the run before this one had for year y
AcceptedEarlier(y) ==
    y \in DOMAIN earlier.results /\ Succeeded(earlier.results[y])
FailedEarlier(y) ==
    y \in DOMAIN earlier.results /\ IsError(earlier.results[y])
NotReachedEarlier(y) == y \notin DOMAIN earlier.results

\* C13 as claimed: in a run restarted on the same input after the operator
\* halted the run before it, a year accepted in that run is a cache hit
\* without an oracle call, and every other year (failed then, or not
\* reached) gets an oracle call.
C13_AsClaimed ==
    [][ (pc = "loop" /\ RestartedAfterHalt) =>
            IF AcceptedEarlier(ArgYear)
            THEN call'.oracle = 0 /\ call'.found = "match"
            ELSE call'.oracle = 1 ]_vars

\* C13 as amended: in a run restarted on the same input after the operator
\* halted the run before it, a year accepted in that run is a cache hit
\* returning the same result without an oracle call; a year that failed in
\* that run gets an oracle call; a year that run did not reach gets an oracle
\* call unless the cache still holds a matching entry of it from a run
\* further back, in which case it is a hit too.
C13_Resumable ==
    [][ (pc = "loop" /\ RestartedAfterHalt) =>
            /\ AcceptedEarlier(ArgYear) =>
                   /\ call'.oracle = 0
                   /\ call'.found = "match"
                   /\ call'.result = earlier.results[ArgYear]
            /\ FailedEarlier(ArgYear) => call'.oracle = 1
            /\ NotReachedEarlier(ArgYear) =>
                   (call'.oracle = 0 <=> HoldsMatchingEntry) ]_vars

\* the run before was halted after 2020, whose reply it had accepted; this
\* run, on the same input, found 2020 in the cache and asked the oracle for
\* 2021
C13_Witness ==
    /\ RestartedAfterHalt
    /\ pc = "gate"
    /\ DOMAIN earlier.results = { "2020" }
    /\ AcceptedEarlier("2020")
    /\ categorized_by_year["2020"] = earlier.results["2020"]
    /\ call.year = "2021"
    /\ call.found = "absent"
    /\ call.oracle = 1

(***************************************************************************)
(* The transcript log.                                                     *)
(***************************************************************************)
\* the entries of year y in a log
EntriesOf(log, y) ==
    { i \in 1..Len(log) : "year" \in DOMAIN log[i] /\ log[i].year = y }

\* every entry of log is still in log2, at its place
KeepsEntries(log, log2) ==
    /\ Len(log2) >= Len(log)
    /\ SubSeq(log2, 1, Len(log)) = log

\* C14: every call of categorize_year_books that returns (a hit, an accepted
\* reply, an error) adds at least one entry of its year to the log, and no
\* step of any run takes an entry out of the log file or changes one.
C14_AppendOnlyTranscript ==
    [][ /\ (pc = "loop" /\ pc' = "gate") =>
               Cardinality(EntriesOf(logFile', ArgYear))
                   > Cardinality(EntriesOf(logFile, ArgYear))
        /\ KeepsEntries(logFile, logFile') ]_vars

(***************************************************************************)
(* Ctrl+C at the prompt.                                                   *)
(***************************************************************************)
\* the loop was left by the break of line 322: the year it was at is still
\* the head of todo
Halted == pc \in { "finally", "output" } /\ todo # <<>>

\* the years the loop has been through
ProcessedYears == (DOMAIN books_by_year) \ Range(Tail(todo))

\* C15: Ctrl+C at the prompt after a year leads to the finally block without
\* another call of categorize_year_books; the finally block saves the cache
\* and the log gets no further entry; then the output file is written with
\* the results of exactly the years processed so far and the process exits
\* 0; no oracle call is made on the way.
C15_InterruptBetweenYears ==
    [][ /\ (pc = "gate" /\ todo' = todo) =>
               /\ pc' = "finally"
               /\ UNCHANGED << files, cache, categorized_by_year, call >>
        /\ (Halted /\ pc = "finally") =>
               /\ pc' = "output"
               /\ cacheFile' = Pickle(cache)
               /\ UNCHANGED << logFile, outputFile, categorized_by_year, call >>
        /\ (Halted /\ pc = "output") =>
               /\ DOMAIN categorized_by_year = ProcessedYears
               /\ outputFile' = [type |-> "file", data |-> categorized_by_year]
               /\ pc' = "idle"
               /\ exit' = "0"
               /\ UNCHANGED << cacheFile, logFile, call >> ]_vars

\* a run on both years was halted at the prompt after 2020: it exited 0, the
\* output file holds 2020 alone, the cache file what was accepted for it
C15_Witness ==
    /\ pc = "idle"
    /\ exit = "0"
    /\ earlier.how = "break"
    /\ DOMAIN earlier.input = Years
    /\ outputFile = [type |-> "file", data |-> earlier.results]
    /\ DOMAIN earlier.results = { "2020" }
    /\ call.year = "2020"
    /\ call.oracle = 1
    /\ cacheFile.state = "pickle"
    /\ DOMAIN cacheFile.data = { "2020" }

(***************************************************************************)
(* Retention.                                                              *)
(***************************************************************************)
\* the dict a cache file holds, empty when there is no file or no pickle
Persisted(file) == IF file.state = "pickle" THEN file.data ELSE EmptyCache

\* from dict c to dict c2 no year is lost, and an entry differs only by the
\* step being the call for that year, which found a stale entry, asked the
\* oracle and returned its reply
Retains(c, c2) ==
    \A y \in DOMAIN c :
        /\ y \in DOMAIN c2
        /\ c2[y] # c[y] =>
               /\ pc = "loop"
               /\ pc' = "gate"
               /\ ArgYear = y
               /\ cache[y].books_hash # get_books_hash(ArgBooks)
               /\ call'.oracle = 1
               /\ Succeeded(call'.result)

\* C16: no step of any run takes a year out of the cache file or, while the
\* process lives, out of the cache dict, whether or not the year is in the
\* run's input; and the entry of a year changes only in the call for that
\* year that finds its hash differing from that of the year's list and
\* accepts the oracle's reply.
C16_UnboundedRetention ==
    [][ /\ Retains(Persisted(cacheFile), Persisted(cacheFile'))
        /\ (pc # "idle" /\ pc' # "idle") => Retains(cache, cache') ]_vars

\* a run whose input holds 2021 alone has replaced the stale entry of 2021,
\* and the entry of 2020 is still in the dict and the file
C16_Witness ==
    /\ pc = "gate"
    /\ DOMAIN books_by_year = { "2021" }
    /\ call.found = "stale"
    /\ Succeeded(call.result)
    /\ DOMAIN cache = Years
    /\ Persisted(cacheFile) = cache

(***************************************************************************)
(* The hash.                                                               *)
(***************************************************************************)
\* two lists hold the same books in the same order: at every place the same
\* author and the same title
SameContent(L1, L2) ==
    /\ Len(L1) = Len(L2)
    /\ \A i \in 1..Len(L1) :
           /\ Field(L1[i], "author") = Field(L2[i], "author")
           /\ Field(L1[i], "title") = Field(L2[i], "title")

\* C17: the hashes of the list a year had in the run before and of the list
\* it has in this run are equal exactly when the two lists hold the same
\* authors and titles in the same order, whatever the order of the keys in
\* each book; and when the run before accepted the year's reply, the call of
\* this run finds the entry and asks the oracle nothing exactly in that case:
\* a book reordered, added, removed or edited makes it a miss.
C17_HashFingerprint ==
    [][ (pc = "loop" /\ ArgYear \in DOMAIN earlier.input) =>
            /\ get_books_hash(earlier.input[ArgYear]) = get_books_hash(ArgBooks)
                   <=> SameContent(earlier.input[ArgYear], ArgBooks)
            /\ AcceptedEarlier(ArgYear) =>
                   /\ call'.found = "match"
                          <=> SameContent(earlier.input[ArgYear], ArgBooks)
                   /\ call'.oracle = 0
                          <=> SameContent(earlier.input[ArgYear], ArgBooks) ]_vars

\* the run before accepted the reply for two books; this run has the same
\* two books, the keys of each in the other order, and its call was a hit
C17_Witness ==
    /\ pc = "gate"
    /\ AcceptedEarlier("2020")
    /\ earlier.input["2020"] = << << <<"author", "A">>, <<"title", "T1">> >>,
                                  << <<"author", "B">>, <<"title", "t2">> >> >>
    /\ call.books = << << <<"title", "T1">>, <<"author", "A">> >>,
                       << <<"title", "t2">>, <<"author", "B">> >> >>
    /\ call.found = "match"
    /\ call.oracle = 0

(***************************************************************************)
(* The accepted result.                                                    *)
(***************************************************************************)
\* what json.loads made of the text the oracle answered call c with
ParsedReply(c) == JsonLoads(StripFences(c.asked.text))

\* the entry of a year's list and a response
EntryOf(books, response) ==
    [books_hash |-> get_books_hash(books), response |-> response]

\* C18: when a call returns a reply of the oracle (it passed validation), the
\* result it returns, the result main keeps for the year and the response of
\* the year's entry in the cache dict and the cache file are the parsed reply
\* itself, and the entry's hash is that of the year's list; the results main
\* keeps stay so to the end of the run, and the output file, when the run
\* writes it, holds them as they are.
C18_AcceptedResultUnchanged ==
    [][ /\ (pc = "loop" /\ pc' = "gate" /\ call'.oracle = 1
                /\ Succeeded(call'.result)) =>
               /\ call'.result = ParsedReply(call')
               /\ categorized_by_year'[ArgYear] = ParsedReply(call')
               /\ cache'[ArgYear] = EntryOf(ArgBooks, ParsedReply(call'))
               /\ Persisted(cacheFile')[ArgYear] = EntryOf(ArgBooks, ParsedReply(call'))
        /\ pc # "idle" =>
               \A y \in DOMAIN categorized_by_year :
                   Succeeded(categorized_by_year[y]) =>
                       /\ cache[y] = EntryOf(books_by_year[y], categorized_by_year[y])
                       /\ Persisted(cacheFile)[y] = cache[y]
        /\ pc = "output" =>
               /\ DOMAIN outputFile'.data = DOMAIN categorized_by_year
               /\ \A y \in DOMAIN categorized_by_year :
                      outputFile'.data[y] = categorized_by_year[y] ]_vars

\* a run has accepted for 2021 a reply with a category written "History":
\* the result, the cache file and the output file hold the reply as it came
C18_Witness ==
    /\ pc = "idle"
    /\ exit = "0"
    /\ call.year = "2021"
    /\ call.oracle = 1
    /\ call.asked = Replies(<< Doc(ReplyTwo) >>)
    /\ call.result = ReplyTwo
    /\ outputFile # None
    /\ "2021" \in DOMAIN outputFile.data
    /\ outputFile.data["2021"] = ReplyTwo
    /\ Persisted(cacheFile)["2021"] = EntryOf(call.books, ReplyTwo)

(***************************************************************************)
(* No retry within a run.                                                  *)
(***************************************************************************)
\* y1 < y2 as str compares the keys
YearBefore(y1, y2) == y1 = "2020" /\ y2 = "2021"

\* C19: in a run every call of categorize_year_books is for a year not yet
\* processed, later in key order than every year processed and earlier than
\* every other year of the input, and it asks the oracle at most once
\* whatever comes of it; and in a run on the input of the run before it, the
\* call for a year whose result was an error in that run asks the oracle.
C19_NoRetryWithinRun ==
    [][ pc = "loop" =>
            /\ ArgYear \notin DOMAIN categorized_by_year
            /\ \A y \in DOMAIN categorized_by_year : YearBefore(y, ArgYear)
            /\ \A y \in (DOMAIN books_by_year) \ (DOMAIN categorized_by_year) :
                   y # ArgYear => YearBefore(ArgYear, y)
            /\ call'.oracle \in { 0, 1 }
            /\ (books_by_year = earlier.input /\ FailedEarlier(ArgYear)) =>
                   /\ call'.found # "match"
                   /\ call'.oracle = 1 ]_vars

\* 2021 failed in the run before; this run, on the same input, has been
\* through 2020 and has asked the oracle for 2021 again
C19_Witness ==
    /\ pc = "gate"
    /\ earlier.how # "none"
    /\ books_by_year = earlier.input
    /\ FailedEarlier("2021")
    /\ "2020" \in DOMAIN categorized_by_year
    /\ call.year = "2021"
    /\ call.oracle = 1

(***************************************************************************)
(* No reply, and a reply that does not parse.                              *)
(***************************************************************************)
\* the log has gained exactly one entry, of this year, prompt, raw text and
\* error message, with no parsed reply
LoggedFailure(year, books, raw, msg) ==
    /\ Len(logFile') = Len(logFile) + 1
    /\ SubSeq(logFile', 1, Len(logFile)) = logFile
    /\ logFile'[Len(logFile')] =
           [year |-> year, prompt |-> Prompt(year, books), raw |-> raw,
            parsed |-> None, error |-> ErrorText(msg)]

\* C20: a call whose oracle call raises returns the error marker with the
\* "API error" message and logs one entry whose raw reply is "N/A"; a call
\* whose oracle answers a text that does not parse returns the error marker
\* with the "Failed to parse" message and logs one entry whose raw reply is
\* the text received (less the white space and the fence around it); in both
\* cases the call returns to main and the cache is left alone.
C20_NoReplyVersusUnparsable ==
    [][ /\ (pc = "loop" /\ call'.asked.kind = "raise") =>
               /\ pc' = "gate"
               /\ call'.result = ErrorResult(MSG_API)
               /\ categorized_by_year'[ArgYear] = ErrorResult(MSG_API)
               /\ LoggedFailure(ArgYear, ArgBooks, Literal("N/A"), MSG_API)
               /\ UNCHANGED << cache, cacheFile >>
        /\ (pc = "loop" /\ call'.asked.kind = "text"
                /\ ParsedReply(call') = None) =>
               /\ pc' = "gate"
               /\ call'.result = ErrorResult(MSG_PARSE)
               /\ categorized_by_year'[ArgYear] = ErrorResult(MSG_PARSE)
               /\ LoggedFailure(ArgYear, ArgBooks, StripFences(call'.asked.text),
                                MSG_PARSE)
               /\ StripFences(call'.asked.text) # Literal("N/A")
               /\ UNCHANGED << cache, cacheFile >> ]_vars

\* the oracle call has raised while the cache held a stale entry of the
\* year: the year's result is the "API error" marker and the last entry of
\* the log has "N/A" for the raw reply
C20_Witness ==
    /\ pc = "gate"
    /\ call.asked = Raises
    /\ call.found = "stale"
    /\ call.result = ErrorResult(MSG_API)
    /\ logFile[Len(logFile)].raw = Literal("N/A")
    /\ logFile[Len(logFile)].error = ErrorText(MSG_API)

(***************************************************************************)
(* Code fences.                                                            *)
(***************************************************************************)
\* the oracle answered call c with a document in a code fence
AnsweredFenced(c) ==
    /\ c.asked.kind = "text"
    /\ \E tag \in FenceTags, d \in FencedDocs : c.asked.text = Fenced(tag, d)

\* the document in the fence
FencedDoc(c) == c.asked.text[Len(c.asked.text) - 2].doc

\* the step is the call of the year ending as r does
EndsAs(r) ==
    /\ cache' = r.cache
    /\ cacheFile' = r.file
    /\ logFile' = r.log
    /\ call'.result = r.result
    /\ call'.how = r.how
    /\ call'.warnings = r.warnings

\* C21: a call the oracle answers with a well-formed document in a code
\* fence, the opening fence with or without a language tag, ends as the call
\* would have ended had the oracle answered the document alone: the same
\* result, cache dict, cache file and log.
C21_CodeFenceTolerance ==
    [][ (pc = "loop" /\ AnsweredFenced(call')) =>
            EndsAs(categorize_year_books(cache, cacheFile, logFile, ArgYear, ArgBooks,
                                         Replies(<< Doc(FencedDoc(call')) >>))) ]_vars

(***************************************************************************)
(* A refresh that fails.                                                   *)
(***************************************************************************)
\* the run before the last went through year y and got a result for its list;
\* the last run went through y with another list and got an error marker
RefreshFailed(y) ==
    /\ "previous" \in DOMAIN earlier
    /\ y \in DOMAIN earlier.previous.results
    /\ Succeeded(earlier.previous.results[y])
    /\ y \in DOMAIN earlier.results
    /\ earlier.input[y] # earlier.previous.input[y]
    /\ IsError(earlier.results[y])

\* C22: when categorize_year_books succeeded for year y and list L, and the
\* next call for y, with another list, ended in an error, the entry of y still
\* holds the hash of L and the result for L, and a call for y and L that
\* follows is a cache hit: it returns that result and the oracle is not asked.
C22_StaleEntrySurvives ==
    [][ (/\ pc = "loop"
         /\ RefreshFailed(ArgYear)
         /\ ArgBooks = earlier.previous.input[ArgYear])
        => /\ Entry(cache, ArgYear)
                  = EntryOf(ArgBooks, earlier.previous.results[ArgYear])
           /\ call'.found = "match"
           /\ call'.how = "hit"
           /\ call'.oracle = 0
           /\ call'.asked = NotAsked
           /\ call'.result = earlier.previous.results[ArgYear] ]_vars

\* a call for the list of the run before the last has been a cache hit after
\* the last run's call for the year, with the other list, failed
C22_Witness ==
    /\ pc = "gate"
    /\ RefreshFailed(call.year)
    /\ call.books = earlier.previous.input[call.year]
    /\ call.how = "hit"
    /\ call.oracle = 0


(***************************************************************************)
(* An interrupt during an oracle call.                                     *)
(***************************************************************************)
\* C23: an interrupt raised while the oracle call of a year is in flight
\* passes through categorize_year_books and the loop, nothing logged, stored
\* or kept for the year; the finally block then saves the cache and the log
\* gets no further entry; the output file is not written and the process
\* ends abnormally, its result dict gone with it; each result accepted for a
\* year processed before is in the cache file.
C23_AbortInsideLoop ==
    [][ /\ (pc = "loop" /\ call'.asked = Interrupted) =>
               /\ pc' = "unwind"
               /\ UNCHANGED << files, cache, categorized_by_year, todo >>
        /\ pc = "unwind" =>
               /\ cacheFile' = Pickle(cache)
               /\ UNCHANGED << logFile, outputFile >>
               /\ pc' = "idle"
               /\ exit' \notin { "0", "running" }
               /\ categorized_by_year' = EmptyDict
               /\ ArgYear \notin DOMAIN categorized_by_year
               /\ \A y \in DOMAIN categorized_by_year :
                      Succeeded(categorized_by_year[y]) =>
                          /\ y \in DOMAIN Persisted(cacheFile')
                          /\ Persisted(cacheFile')[y]
                                 = EntryOf(books_by_year[y], categorized_by_year[y]) ]_vars

\* a first run on both years got 2020 accepted and was interrupted during the
\* oracle call of 2021: no output file was ever written, and the cache file
\* holds the entry of 2020 alone
C23_Witness ==
    /\ pc = "idle"
    /\ exit = "interrupt"
    /\ earlier.how = "interrupt"
    /\ DOMAIN earlier.results = { "2020" }
    /\ Succeeded(earlier.results["2020"])
    /\ call.year = "2021"
    /\ call.asked = Interrupted
    /\ outputFile = None
    /\ cacheFile = Pickle(StoreEntry(EmptyCache, "2020", get_books_hash(earlier.input["2020"]),
                                     earlier.results["2020"]))

==========================================================================
